---- MODULE Spec2Model ----
(***************************************************************************)
(* Comparable discovery of backend/agents/comparable_discovery_agent.py:   *)
(* IntelligentComparableDiscoveryAgent.find_comparables with its two       *)
(* scoring paths (AI batches with a deterministic fallback, and the        *)
(* deterministic scorer alone), the six factor scorers, the confidence     *)
(* estimator, the distance estimate and candidate retrieval.               *)
(*                                                                         *)
(* Numbers.  Python floats are modelled in fixed point: a score s is the   *)
(* integer s * One, a distance of d miles is the integer d * Mile.  One is *)
(* chosen so that the scores the model's parcels produce are integers      *)
(* (elevenths for the completeness, twentieths for the age decay,          *)
(* hundredths for the weights); a ratio that is not is truncated.          *)
(*                                                                         *)
(* Optional fields.  A Python Optional value is <<>> for None and <<v>>    *)
(* for the value v, so that None, 0 and "" stay three different values     *)
(* that Python's truth test treats alike.                                  *)
(***************************************************************************)
EXTENDS Integers, Sequences, FiniteSets, TLC

VARIABLES store, target, hasKey, pc, candidates, i, scored, nread, outcomes,
          batchStart, lastEntry, calls, maxResults, results, insights,
          recommended

vars == <<store, target, hasKey, pc, candidates, i, scored, nread, outcomes,
          batchStart, lastEntry, calls, maxResults, results, insights,
          recommended>>

(***************************************************************************)
(* Bounds of the model.                                                    *)
(***************************************************************************)
\* number of rows the parcel store can hold
NumRows == 7
\* number of entries of one AI response the model reads
MaxEntries == 2
\* the max_results argument tried besides 0 and the default
MaxResults == 2
\* length of the longest comparables list the market analysis is given
MaxComparables == 3
\* number of rows of the largest table candidate retrieval is run on
MaxStoredRows == 100

(***************************************************************************)
(* Fixed-point units.                                                      *)
(***************************************************************************)
One == 8800
Mile == 1000

None == <<>>
Some(v) == <<v>>

\* Python truth test of an Optional[float] / Optional[int]
TruthyNum(x) == x # <<>> /\ x[1] # 0
\* Python truth test of a str / Optional[str]
TruthyStr(x) == x # <<>> /\ x[1] # ""

Abs(x) == IF x < 0 THEN -x ELSE x
Max2(a, b) == IF a >= b THEN a ELSE b
Min2(a, b) == IF a <= b THEN a ELSE b

RECURSIVE GCD(_, _)
GCD(a, b) == IF b = 0 THEN a ELSE GCD(b, a % b)

\* smaller / larger as a fixed-point score (the fraction is reduced first so
\* that the product stays inside TLC's integers)
Ratio(smaller, larger) ==
    LET g == GCD(Abs(smaller), Abs(larger))
        s == IF larger < 0 THEN -(smaller \div g) ELSE smaller \div g
        l == IF larger < 0 THEN -(larger \div g) ELSE larger \div g
    IN  (s * One) \div l

(***************************************************************************)
(* Strings.  str.lower(), str.upper() and the substring test are tables    *)
(* over the strings the model's parcels carry.                             *)
(***************************************************************************)
Lower(s) ==
    CASE s = "Chicago" -> "chicago"
      [] s = "CHICAGO" -> "chicago"
      [] s = "Evanston" -> "evanston"
      [] s = "Dallas" -> "dallas"
      [] s = "Waukegan" -> "waukegan"
      [] OTHER -> s

Upper(s) ==
    CASE s = "m-1" -> "M-1"
      [] s = "i-2" -> "I-2"
      [] s = "Light Industrial" -> "LIGHT INDUSTRIAL"
      [] OTHER -> s

\* word in s, for an upper-cased zoning code s
Contains(s, word) ==
    CASE word = "INDUSTRIAL" ->
            s \in {"INDUSTRIAL", "LIGHT INDUSTRIAL", "HEAVY INDUSTRIAL"}
      [] word = "MANUFACTURING" -> s \in {"MANUFACTURING"}
      [] word = "WAREHOUSE" -> s \in {"WAREHOUSE", "WAREHOUSE DISTRICT"}
      [] OTHER -> FALSE

(***************************************************************************)
(* SimilarityFactors (models/property_models.py): weights in hundredths,   *)
(* tolerances.                                                             *)
(***************************************************************************)
sale_price_weight == 35
size_weight == 25
value_weight == 20
location_weight == 10
age_weight == 5
zoning_weight == 5
age_tolerance_years == 10
value_tolerance_percent == (3 * One) \div 10

\* 0.3, the inclusion threshold written in both scoring paths
MinSimilarity == (3 * One) \div 10

batch_size == 5
DefaultMaxResults == 10

(***************************************************************************)
(* Parcels (PropertyResponse / Property rows).                             *)
(***************************************************************************)
Parcel(id, county, address, city, state, zoning, area, lot, year, value, sale, lat, lon, quality) ==
    [id |-> id, county_id |-> county, address |-> address, city |-> city,
     state |-> state, zoning_code |-> zoning, building_area |-> area,
     lot_area |-> lot, year_built |-> year, assessed_value |-> value,
     sale_price |-> sale, latitude |-> lat, longitude |-> lon,
     quality_score |-> quality]

\* the rows the store is filled from; row k of the store has id k
BaseRows == <<
    Parcel(0, "cook", "1 Main St", "Chicago", "IL", Some("M-1"), Some(55000),
           Some(100000), Some(2005), Some(2100000), None, Some(42), Some(-88),
           Some((9 * One) \div 10)),
    Parcel(0, "cook", "2 Main St", "CHICAGO", "IL", Some("I-2"), Some(100000),
           None, Some(1990), Some(1000000), Some(3000000), None, None, None),
    Parcel(0, "dallas", "3 Elm St", "Dallas", "TX", Some("RESIDENTIAL"),
           Some(5000), Some(8000), Some(1950), Some(200000), Some(1000000),
           Some(33), Some(-97), Some(0)),
    Parcel(0, "cook", "4 Lake St", "Evanston", "IL", None, None,
           Some(20000), None, Some(500000), None, None, None, None),
    Parcel(0, "cook", "5 Lake St", "Evanston", "IL", Some("Light Industrial"),
           Some(50000), Some(90000), None, None, Some(2000000), Some(41),
           Some(-87), Some(One)),
    Parcel(0, "dallas", "6 Elm St", "Dallas", "TX", Some("I-1"), Some(25000),
           Some(40000), Some(2010), Some(2000000), None, Some(0), Some(-97),
           Some((9 * One) \div 10)),
    Parcel(0, "cook", "7 Main St", "Chicago", "IL", Some("M-1"), Some(50000),
           Some(100000), Some(2000), Some(2000000), None, Some(41), Some(-87),
           Some((9 * One) \div 10)) >>

Row(k) == [BaseRows[((k - 1) % Len(BaseRows)) + 1] EXCEPT !.id = k]

\* the targets a caller posts: one that is not stored, one that is stored as
\* row 2, one with no zoning and negative area, value and price
Targets == {
    Parcel(100, "cook", "100 Main St", "Chicago", "IL", Some("M-1"),
           Some(50000), Some(100000), Some(2000), Some(2000000), None,
           Some(41), Some(-87), Some((9 * One) \div 10)),
    Parcel(2, "cook", "2 Main St", "chicago", "IL", Some("m-1"),
           Some(100000), None, Some(1990), Some(1000000), Some(4000000),
           Some(0), Some(-87), Some(0)),
    Parcel(101, "lake", "", "Waukegan", "IL", None, Some(-50000), None, None,
           Some(-1000000), Some(-2000000), None, None, None) }

\* the contents the store can have: rows 1..n, and tables of one row that
\* qualifies for no target (no building area) or not for the target of id 2
Stores ==
    { [k \in 1..n |-> Row(k)] : n \in 0..NumRows }
    \cup {<<Row(4)>>, <<Row(2)>>}

(***************************************************************************)
(* Factor scorers.                                                         *)
(***************************************************************************)
calculate_location_similarity(t, c) ==
    IF Lower(t.city) = Lower(c.city) THEN One
    ELSE IF t.county_id = c.county_id THEN (8 * One) \div 10
    ELSE (3 * One) \div 10

\* a size scorer that divides the candidate's area by the target's
calculate_size_similarity_directed(t, c) ==
    IF ~TruthyNum(t.building_area) \/ ~TruthyNum(c.building_area) THEN 0
    ELSE LET ratio == Ratio(c.building_area[1], t.building_area[1])
         IN  IF 2 * ratio >= One THEN ratio ELSE ratio \div 2

calculate_size_similarity(t, c) ==
    IF ~TruthyNum(t.building_area) \/ ~TruthyNum(c.building_area) THEN 0
    ELSE LET larger == Max2(t.building_area[1], c.building_area[1])
             smaller == Min2(t.building_area[1], c.building_area[1])
         IN  IF larger = 0 THEN 0
             ELSE LET ratio == Ratio(smaller, larger)
                  IN  IF 2 * ratio >= One THEN ratio ELSE ratio \div 2

\* an age scorer whose second branch decays over one tolerance
calculate_age_similarity_steep(t, c) ==
    IF ~TruthyNum(t.year_built) \/ ~TruthyNum(c.year_built) THEN One \div 2
    ELSE LET age_diff == Abs(t.year_built[1] - c.year_built[1])
             tolerance == age_tolerance_years
         IN  IF age_diff <= tolerance
             THEN One - (age_diff * One) \div (tolerance * 2)
             ELSE Max2(0, One \div 2
                          - ((age_diff - tolerance) * One) \div tolerance)

calculate_age_similarity(t, c) ==
    IF ~TruthyNum(t.year_built) \/ ~TruthyNum(c.year_built) THEN One \div 2
    ELSE LET age_diff == Abs(t.year_built[1] - c.year_built[1])
             tolerance == age_tolerance_years
         IN  IF age_diff <= tolerance
             THEN One - (age_diff * One) \div (tolerance * 2)
             ELSE Max2(0, One \div 2
                          - ((age_diff - tolerance) * One) \div (tolerance * 2))

\* the set literal of calculate_zoning_similarity
industrial_codes ==
    {"M1", "M2", "M3", "I-1", "I-2", "I-3", "I1", "I2", "I3", "INDUSTRIAL"}

calculate_zoning_similarity(t, c) ==
    IF ~TruthyStr(t.zoning_code) \/ ~TruthyStr(c.zoning_code) THEN One \div 2
    ELSE LET target_zoning == Upper(t.zoning_code[1])
             candidate_zoning == Upper(c.zoning_code[1])
         IN  IF target_zoning = candidate_zoning THEN One
             ELSE IF target_zoning \in industrial_codes
                     /\ candidate_zoning \in industrial_codes
                  THEN (8 * One) \div 10
             ELSE IF \E w \in {"INDUSTRIAL", "MANUFACTURING", "WAREHOUSE"} :
                        Contains(target_zoning, w) /\ Contains(candidate_zoning, w)
                  THEN (7 * One) \div 10
             ELSE (3 * One) \div 10

\* a rule that returns the ratio inside the tolerance as well
ValueRuleWithoutTolerance(a, b, tolerance) ==
    IF ~TruthyNum(a) \/ ~TruthyNum(b) THEN One \div 2
    ELSE LET larger == Max2(a[1], b[1])
             smaller == Min2(a[1], b[1])
         IN  IF larger = 0 THEN 0 ELSE Max2(0, Ratio(smaller, larger))

\* the rule shared by the assessed-value and the sale-price scorer
ValueRule(a, b, tolerance) ==
    IF ~TruthyNum(a) \/ ~TruthyNum(b) THEN One \div 2
    ELSE LET larger == Max2(a[1], b[1])
             smaller == Min2(a[1], b[1])
         IN  IF larger = 0 THEN 0
             ELSE LET ratio == Ratio(smaller, larger)
                  IN  IF ratio >= One - tolerance THEN One ELSE Max2(0, ratio)

calculate_value_similarity(t, c) ==
    ValueRule(t.assessed_value, c.assessed_value, value_tolerance_percent)

calculate_sale_price_similarity(t, c) ==
    ValueRule(t.sale_price, c.sale_price, (3 * One) \div 10)

(***************************************************************************)
(* Confidence.                                                             *)
(***************************************************************************)
calculate_data_completeness(p) ==
    LET essential == Cardinality({f \in {"address", "city", "state",
                                          "county_id"} : p[f] # ""})
                     + (IF TruthyNum(p.building_area) THEN 1 ELSE 0)
                     + (IF TruthyStr(p.zoning_code) THEN 1 ELSE 0)
        optional == Cardinality({f \in {"year_built", "assessed_value",
                                        "latitude", "longitude", "lot_area"} :
                                   TruthyNum(p[f])})
        total_fields == 11
    IN  ((essential + optional) * One) \div total_fields

\* x or 0.0
QualityOrDefaultZero(q) == IF TruthyNum(q) THEN q[1] ELSE 0

\* x or 0.5
QualityOrDefault(q) == IF TruthyNum(q) THEN q[1] ELSE One \div 2

calculate_confidence_score(t, c) ==
    LET avg_completeness ==
            (calculate_data_completeness(t) + calculate_data_completeness(c)) \div 2
        avg_quality ==
            (QualityOrDefault(t.quality_score) + QualityOrDefault(c.quality_score)) \div 2
        confidence == (avg_completeness * 6 + avg_quality * 4) \div 10
    IN  Min2(One, confidence)

(***************************************************************************)
(* Distance.                                                               *)
(***************************************************************************)
\* the haversine formula with radius 3959, in thousandths of a mile, at the
\* coordinates the model's parcels carry
Haversine(lat1, lon1, lat2, lon2) ==
    LET a == <<lat1, lon1>>
        b == <<lat2, lon2>>
        pair == {a, b}
    IN  IF a = b THEN 0
        ELSE CASE pair = {<<41, -87>>, <<42, -88>>} -> 86327
               [] pair = {<<41, -87>>, <<33, -97>>} -> 780045
               [] pair = {<<42, -88>>, <<33, -97>>} -> 792826
               [] pair = {<<41, -87>>, <<0, -87>>} -> 2833000
               [] pair = {<<41, -87>>, <<0, -97>>} -> 2901512
               [] pair = {<<42, -88>>, <<0, -87>>} -> 2902768
               [] pair = {<<42, -88>>, <<0, -97>>} -> 2955828
               [] pair = {<<33, -97>>, <<0, -87>>} -> 2371234
               [] pair = {<<33, -97>>, <<0, -97>>} -> 2280220
               [] pair = {<<0, -87>>, <<0, -97>>} -> 690975

calculate_distance(t, c) ==
    IF ~(TruthyNum(t.latitude) /\ TruthyNum(t.longitude)
         /\ TruthyNum(c.latitude) /\ TruthyNum(c.longitude))
    THEN IF Lower(t.city) = Lower(c.city) THEN 5 * Mile
         ELSE IF t.county_id = c.county_id THEN 25 * Mile
         ELSE 100 * Mile
    ELSE Haversine(t.latitude[1], t.longitude[1], c.latitude[1], c.longitude[1])

(***************************************************************************)
(* Aggregation.                                                            *)
(***************************************************************************)
calculate_similarity(t, c) ==
    LET location_score == calculate_location_similarity(t, c)
        size_score == calculate_size_similarity(t, c)
        age_score == calculate_age_similarity(t, c)
        zoning_score == calculate_zoning_similarity(t, c)
        value_score == calculate_value_similarity(t, c)
        sale_price_score == calculate_sale_price_similarity(t, c)
    IN  [similarity_score |->
             (location_score * location_weight + size_score * size_weight
              + age_score * age_weight + zoning_score * zoning_weight
              + value_score * value_weight
              + sale_price_score * sale_price_weight) \div 100,
         similarity_factors |->
             [location |-> location_score, size |-> size_score,
              age |-> age_score, zoning |-> zoning_score,
              value |-> value_score, sale_price |-> sale_price_score],
         confidence_score |-> calculate_confidence_score(t, c)]

calculate_detailed_similarity_factors(t, c) ==
    [location |-> calculate_location_similarity(t, c),
     size |-> calculate_size_similarity(t, c),
     age |-> calculate_age_similarity(t, c),
     zoning |-> calculate_zoning_similarity(t, c),
     value |-> calculate_value_similarity(t, c)]

ComparableProperty(property, similarity_score, distance_miles, similarity_factors, confidence_score) ==
    [property |-> property, similarity_score |-> similarity_score,
     distance_miles |-> distance_miles,
     similarity_factors |-> similarity_factors,
     confidence_score |-> confidence_score]

\* a scorer that keeps every candidate with a positive score
PassesMinimumKeepsLow(similarity_score) == similarity_score > 0

\* similarity_score > 0.3 of traditional_score_candidates
PassesMinimum(similarity_score) == similarity_score > MinSimilarity

RECURSIVE traditional_score_candidates(_, _)
traditional_score_candidates(t, cands) ==
    IF cands = <<>> THEN <<>>
    ELSE LET candidate == Head(cands)
             rest == traditional_score_candidates(t, Tail(cands))
             r == calculate_similarity(t, candidate)
         IN  IF candidate.id = t.id THEN rest
             ELSE IF PassesMinimum(r.similarity_score)
                  THEN <<ComparableProperty(candidate, r.similarity_score,
                                            calculate_distance(t, candidate),
                                            r.similarity_factors,
                                            r.confidence_score)>> \o rest
             ELSE rest

(***************************************************************************)
(* Candidate retrieval.                                                    *)
(***************************************************************************)
\* a limit that lets one more row through
LimitOneMore(s, n) == IF Len(s) <= n + 1 THEN s ELSE SubSeq(s, 1, n + 1)

\* query.limit(n).all()
Limit(s, n) == IF Len(s) <= n THEN s ELSE SubSeq(s, 1, n)

\* a retrieval that does not filter on the target's id
get_candidate_properties_with_target(rows, t) ==
    LET query == SelectSeq(rows, LAMBDA r : r.building_area # None)
        same_county_results ==
            Limit(SelectSeq(query, LAMBDA r : r.county_id = t.county_id), 50)
        other_county_results ==
            Limit(SelectSeq(query, LAMBDA r : r.county_id # t.county_id),
                  50 - Len(same_county_results))
    IN  IF Len(same_county_results) < 20
        THEN same_county_results \o other_county_results
        ELSE same_county_results

get_candidate_properties(rows, t) ==
    LET query == SelectSeq(rows, LAMBDA r : r.id # t.id /\ r.building_area # None)
        same_county_results ==
            Limit(SelectSeq(query, LAMBDA r : r.county_id = t.county_id), 50)
        other_county_results ==
            Limit(SelectSeq(query, LAMBDA r : r.county_id # t.county_id),
                  50 - Len(same_county_results))
    IN  IF Len(same_county_results) < 20
        THEN same_county_results \o other_county_results
        ELSE same_county_results

(***************************************************************************)
(* Ranking: list.sort(key=similarity_score, reverse=True) is a stable      *)
(* descending sort; scored_properties[:max_results] is a prefix.           *)
(***************************************************************************)
RECURSIVE InsertDesc(_, _)
\* an insertion that puts an entry before the entries it ties with
InsertDescBeforeTies(sorted, x) ==
    IF sorted = <<>> THEN <<x>>
    ELSE IF Head(sorted).similarity_score > x.similarity_score
         THEN <<Head(sorted)>> \o InsertDesc(Tail(sorted), x)
         ELSE <<x>> \o sorted

InsertDesc(sorted, x) ==
    IF sorted = <<>> THEN <<x>>
    ELSE IF Head(sorted).similarity_score >= x.similarity_score
         THEN <<Head(sorted)>> \o InsertDesc(Tail(sorted), x)
         ELSE <<x>> \o sorted

RECURSIVE SortDescFrom(_, _)
SortDescFrom(sorted, rest) ==
    IF rest = <<>> THEN sorted
    ELSE SortDescFrom(InsertDesc(sorted, Head(rest)), Tail(rest))

\* a find_comparables that returns the scoring order
SortDescOmitted(s) == s

SortDesc(s) == SortDescFrom(<<>>, s)

\* a slice that is one entry too long
TakeOneMore(s, n) == IF n + 1 >= Len(s) THEN s ELSE SubSeq(s, 1, n + 1)

Take(s, n) == IF n >= Len(s) THEN s ELSE SubSeq(s, 1, n)

(***************************************************************************)
(* The AI service.  A response entry is either not a JSON object or an     *)
(* object with an id (0: absent, or an id no candidate has) and the two    *)
(* score fields, each a number, absent, or a string.                       *)
(***************************************************************************)
Num(v) == [t |-> "num", v |-> v]
Absent == [t |-> "absent", v |-> 0]
Str == [t |-> "str", v |-> 0]

AIPairs == {
    <<Num((9 * One) \div 10), Num((8 * One) \div 10)>>,
    <<Num((3 * One) \div 10), Num((8 * One) \div 10)>>,
    <<Num((15 * One) \div 10), Num((17 * One) \div 10)>>,
    <<Absent, Num((8 * One) \div 10)>>,
    <<Str, Num((8 * One) \div 10)>>,
    <<Num((9 * One) \div 10), Str>> }

NonObject == [kind |-> "nonobject", id |-> 0, similarity_score |-> Absent,
              confidence_score |-> Absent]
NoEntry == [kind |-> "none", id |-> 0, similarity_score |-> Absent,
            confidence_score |-> Absent]

\* the ids a response to the batch at index start can name: the first and
\* the last candidate of the batch, the first candidate of another batch,
\* and 0
NamedIds(cands, start) ==
    LET inside == {cands[start + 1].id,
                   cands[Min2(start + batch_size, Len(cands))].id}
        others == {k \in 1..Len(cands) :
                     k <= start \/ k > start + batch_size}
        outside == IF others = {} THEN {}
                   ELSE {cands[CHOOSE k \in others :
                                 \A m \in others : k <= m].id}
    IN  inside \cup outside \cup {0}

Entries(cands, start) ==
    { [kind |-> "object", id |-> id, similarity_score |-> p[1],
       confidence_score |-> p[2]] :
        id \in NamedIds(cands, start), p \in AIPairs }
    \cup {NonObject}

\* what the AI call of one batch does
AIBehaviours == {"raises", "invalid_json", "not_iterable", "iterable"}

\* the exception classes the two handlers of ai_score_candidates name
InnerCatches(e) == e = "JSONDecodeError"

\* an outer handler that names only the service and the decoding error
OuterCatchesServiceOnly(e) == e \in {"APIError", "JSONDecodeError"}

OuterCatches(e) ==
    e \in {"APIError", "JSONDecodeError", "TypeError", "AttributeError",
           "ValidationError", "ValueError"}

\* a slice that loses the last candidate of a full batch
BatchOneShort(cands, start) ==
    SubSeq(cands, start + 1, Min2(start + batch_size - 1, Len(cands)))

\* candidates[i:i + batch_size]
Batch(cands, start) ==
    SubSeq(cands, start + 1, Min2(start + batch_size, Len(cands)))

\* dict.get(key, 0.0)
GetOrZero(field) == IF field.t = "absent" THEN Num(0) ELSE field

\* next((c for c in batch if c.id == candidate_id), None)
FindCandidate(batch, candidate_id) ==
    LET hits == SelectSeq(batch, LAMBDA c : c.id = candidate_id)
    IN  IF hits = <<>> THEN None ELSE Some(Head(hits))

\* an acceptance test that lets a score of exactly 0.3 through
AIAcceptsAtThreshold(similarity_score) == similarity_score >= MinSimilarity

\* similarity_score > 0.3 of ai_score_candidates
AIAccepts(similarity_score) == similarity_score > MinSimilarity

\* the body of "for score_data in ai_scores": the exception it raises
\* ("none" when it completes) and the comparables it appends
ProcessScoreData(t, batch, e) ==
    IF e.kind # "object"
    THEN [raises |-> "AttributeError", appended |-> <<>>]
    ELSE LET similarity_score == GetOrZero(e.similarity_score)
             confidence_score == GetOrZero(e.confidence_score)
             candidate == FindCandidate(batch, e.id)
         IN  IF candidate = None
             THEN [raises |-> "none", appended |-> <<>>]
             ELSE IF similarity_score.t # "num"
             THEN [raises |-> "TypeError", appended |-> <<>>]
             ELSE IF ~AIAccepts(similarity_score.v)
             THEN [raises |-> "none", appended |-> <<>>]
             ELSE IF confidence_score.t # "num"
             THEN [raises |-> "ValidationError", appended |-> <<>>]
             ELSE [raises |-> "none",
                   appended |->
                       <<ComparableProperty(
                             candidate[1], similarity_score.v,
                             calculate_distance(t, candidate[1]),
                             calculate_detailed_similarity_factors(t, candidate[1]),
                             confidence_score.v)>>]

(***************************************************************************)
(* Market insights.  A price per square foot is kept in hundredths of a    *)
(* dollar (Cent); the parcels of the analysis have prices per square foot  *)
(* that are whole dollars, so the mean of one or two of them is exact.     *)
(* The value a call returns is a record: kind is the JSON type, keys the   *)
(* keys of the mapping, and the five fields of the analysis.               *)
(***************************************************************************)
Cent == 100

InsightKeys ==
    {"market_position", "value_range", "market_trends", "key_insights",
     "recommendations"}

Analysis(kind, keys, market_position, value_range, market_trends, key_insights, recommendations) ==
    [kind |-> kind, keys |-> keys, market_position |-> market_position,
     value_range |-> value_range, market_trends |-> market_trends,
     key_insights |-> key_insights, recommendations |-> recommendations]

\* no value returned yet
NoInsights == Analysis("none", {}, "", [min |-> 0, max |-> 0], <<>>, <<>>, <<>>)

\* str.replace('_', ' ') on a market position
ReplaceUnderscore(s) ==
    CASE s = "above_market" -> "above market"
      [] s = "at_market" -> "at market"
      [] s = "below_market" -> "below market"
      [] OTHER -> s

\* prop.assessed_value and prop.building_area
HasValuation(p) == TruthyNum(p.assessed_value) /\ TruthyNum(p.building_area)

\* assessed_value / building_area
PricePerSqFt(p) == (p.assessed_value[1] * Cent) \div p.building_area[1]

RECURSIVE SumSeq(_)
SumSeq(s) == IF s = <<>> THEN 0 ELSE Head(s) + SumSeq(Tail(s))

MinSeq(s) == CHOOSE x \in {s[k] : k \in 1..Len(s)} : \A k \in 1..Len(s) : x <= s[k]
MaxSeq(s) == CHOOSE x \in {s[k] : k \in 1..Len(s)} : \A k \in 1..Len(s) : x >= s[k]

\* the list comparable_psf of lines 322-326
RECURSIVE ComparablePsf(_)
ComparablePsf(comparables) ==
    IF comparables = <<>> THEN <<>>
    ELSE LET comp == Head(comparables)
         IN  (IF HasValuation(comp.property)
              THEN <<PricePerSqFt(comp.property)>> ELSE <<>>)
             \o ComparablePsf(Tail(comparables))

traditional_market_analysis(t, comparables) ==
    IF comparables = <<>>
    THEN Analysis("object", InsightKeys, "unknown", [min |-> 0, max |-> 0],
                  <<"Insufficient data for analysis">>,
                  <<"No comparable properties found">>,
                  <<"Expand search criteria">>)
    ELSE LET target_psf == IF HasValuation(t) THEN PricePerSqFt(t) ELSE 0
             comparable_psf == ComparablePsf(comparables)
         IN  IF comparable_psf # <<>>
             THEN LET avg_psf == SumSeq(comparable_psf) \div Len(comparable_psf)
                      min_psf == MinSeq(comparable_psf)
                      max_psf == MaxSeq(comparable_psf)
                      market_position ==
                          IF 10 * target_psf > 11 * avg_psf THEN "above_market"
                          ELSE IF 10 * target_psf < 9 * avg_psf THEN "below_market"
                          ELSE "at_market"
                      value_range ==
                          IF TruthyNum(t.building_area)
                          THEN [min |-> (min_psf * t.building_area[1]) \div Cent,
                                max |-> (max_psf * t.building_area[1]) \div Cent]
                          ELSE [min |-> 0, max |-> 0]
                  IN  Analysis("object", InsightKeys, market_position,
                               value_range,
                               <<"Average price per sq ft", avg_psf>>,
                               << <<"Property positioned",
                                    ReplaceUnderscore(market_position)>>,
                                  <<"Comparable properties range", min_psf,
                                    max_psf>> >>,
                               <<"Consider local market conditions",
                                 "Review property condition and amenities">>)
             ELSE Analysis("object", InsightKeys, "unknown",
                           [min |-> 0, max |-> 0],
                           <<"Insufficient valuation data">>,
                           <<"Comparable properties lack sufficient valuation data">>,
                           <<"Obtain professional appraisal">>)

\* the JSON values the AI service can answer with: mappings of the requested
\* shape, a mapping with another position, a mapping with one key, an array
AIInsightValues ==
    {Analysis("object", InsightKeys, mp, [min |-> 1800000, max |-> 2200000],
              <<"Stable demand">>, <<"Well located">>, <<"Hold">>) :
        mp \in {"above_market", "at_market", "below_market", "unknown"}}
    \cup {Analysis("object", {"market_position"}, "at_market",
                   [min |-> 0, max |-> 0], <<>>, <<>>, <<>>),
          Analysis("array", {}, "", [min |-> 0, max |-> 0], <<>>, <<>>, <<>>)}

\* what the AI call of ai_generate_market_insights does: the exception it
\* ends in ("none" when json.loads returns a value) and the value
InsightBehaviours ==
    {[raises |-> e, value |-> NoInsights] :
        e \in {"APIError", "JSONDecodeError", "TypeError"}}
    \cup {[raises |-> "none", value |-> v] : v \in AIInsightValues}

(***************************************************************************)
(* Recommendations.  A list of recommendations is a sequence of strings.   *)
(***************************************************************************)
GeneralRecommendations ==
    <<"Review property condition and maintenance requirements",
      "Consider market trends and economic factors",
      "Evaluate potential for property improvements">>

\* the recommendation appended when avg_similarity < 0.6
ExpandRadius == "Consider expanding search radius for better comparables"

\* the recommendation appended when avg_distance > 10
DistanceConcern == "Consider local market factors due to distance from comparables"

\* [c.distance_miles for c in comparables if c.distance_miles]
RECURSIVE TruthyDistances(_)
TruthyDistances(comparables) ==
    IF comparables = <<>> THEN <<>>
    ELSE (IF Head(comparables).distance_miles # 0
          THEN <<Head(comparables).distance_miles>> ELSE <<>>)
         \o TruthyDistances(Tail(comparables))

RECURSIVE TotalSimilarity(_)
TotalSimilarity(comparables) ==
    IF comparables = <<>> THEN 0
    ELSE Head(comparables).similarity_score + TotalSimilarity(Tail(comparables))

\* recommendations that always ask for a wider search radius
traditional_generate_recommendations_always_expands(t, comparables) ==
    IF comparables = <<>>
    THEN <<"Expand search criteria to find more comparable properties",
           "Consider properties in adjacent markets">>
    ELSE LET distances == TruthyDistances(comparables)
         IN  Take(<<ExpandRadius>>
                  \o (IF distances # <<>>
                         /\ SumSeq(distances) > 10 * Mile * Len(distances)
                      THEN <<DistanceConcern>> ELSE <<>>)
                  \o GeneralRecommendations, 5)

\* the averages are compared without dividing: sum/len < 0.6 is
\* 10*sum < 6*len, sum/len > 10 is sum > 10*len
traditional_generate_recommendations(t, comparables) ==
    IF comparables = <<>>
    THEN <<"Expand search criteria to find more comparable properties",
           "Consider properties in adjacent markets">>
    ELSE LET distances == TruthyDistances(comparables)
         IN  Take((IF 10 * TotalSimilarity(comparables)
                         < 6 * One * Len(comparables)
                   THEN <<ExpandRadius>> ELSE <<>>)
                  \o (IF distances # <<>>
                         /\ SumSeq(distances) > 10 * Mile * Len(distances)
                      THEN <<DistanceConcern>> ELSE <<>>)
                  \o GeneralRecommendations, 5)

\* the JSON values the AI service can answer with: arrays of strings (one
\* empty, one of six), and a mapping
AIRecommendationValues ==
    {[kind |-> "array", items |-> <<"Refinance", "Renegotiate leases",
                                    "Inspect the roof">>],
     [kind |-> "array", items |-> <<>>],
     [kind |-> "array", items |-> <<"a", "b", "c", "d", "e", "f">>],
     [kind |-> "object", items |-> <<>>]}

\* what the AI call of ai_generate_recommendations does: the exception it
\* ends in ("none" when json.loads returns a value) and the value
RecommendBehaviours ==
    {[raises |-> e, value |-> [kind |-> "none", items |-> <<>>]] :
        e \in {"APIError", "JSONDecodeError", "TypeError"}}
    \cup {[raises |-> "none", value |-> v] : v \in AIRecommendationValues}

(***************************************************************************)
(* find_comparables as a state machine.                                    *)
(*   pc: "start" -> "traditional" | "ai_call" <-> "entries" -> "sort"      *)
(*       -> "done"; "raised" when an exception leaves find_comparables.    *)
(*   outcomes[b] is what happened to batch b: "raises" (the call raised),  *)
(*   "invalid_json", "failed" (the parsed response could not be fully      *)
(*   processed) or "ok".  batchStart is len(scored_properties) when the    *)
(*   latest batch began.                                                   *)
(***************************************************************************)
Init ==
    /\ store \in Stores
    /\ target \in Targets
    /\ hasKey \in BOOLEAN
    /\ pc = "start"
    /\ candidates = <<>>
    /\ i = 0
    /\ scored = <<>>
    /\ nread = 0
    /\ outcomes = <<>>
    /\ batchStart = 0
    /\ lastEntry = NoEntry
    /\ calls = 0
    /\ maxResults = DefaultMaxResults
    /\ results = <<>>
    /\ insights = NoInsights
    /\ recommended = <<>>

\* a find_comparables that scores an empty candidate list
StartWithoutEmptyCheck ==
    /\ pc = "start"
    /\ candidates' = get_candidate_properties(store, target)
    /\ IF hasKey THEN pc' = "ai_call" ELSE pc' = "traditional"
    /\ UNCHANGED <<recommended, insights, store, target,
                   hasKey, i, scored, nread, outcomes,
                   batchStart, lastEntry, calls, maxResults, results>>

\* lines 42-54: retrieval, the empty case, the choice of the scoring path
Start ==
    /\ pc = "start"
    /\ candidates' = get_candidate_properties(store, target)
    /\ IF candidates' = <<>>
       THEN pc' = "done"
       ELSE IF hasKey THEN pc' = "ai_call" ELSE pc' = "traditional"
    /\ UNCHANGED <<recommended, insights, store, target,
                   hasKey, i, scored, nread, outcomes,
                   batchStart, lastEntry, calls, maxResults, results>>

\* line 54
ScoreTraditional ==
    /\ pc = "traditional"
    /\ scored' = traditional_score_candidates(target, candidates)
    /\ pc' = "sort"
    /\ UNCHANGED <<recommended, insights, store, target,
                   hasKey, candidates, i, nread, outcomes,
                   batchStart, lastEntry, calls, maxResults, results>>

\* the loop header of line 77 after a batch
NextBatch(outcome) ==
    /\ i' = i + batch_size
    /\ outcomes' = Append(outcomes, outcome)
    /\ pc' = IF i + batch_size < Len(candidates) THEN "ai_call" ELSE "sort"
    /\ nread' = 0
    /\ lastEntry' = NoEntry

\* a handler that replaces what was scored so far by the fallback of the batch
RaiseDiscards(e, inner, outcome) ==
    IF (inner /\ InnerCatches(e)) \/ OuterCatches(e)
    THEN /\ scored' = traditional_score_candidates(target, Batch(candidates, i))
         /\ NextBatch(outcome)
    ELSE /\ pc' = "raised"
         /\ UNCHANGED <<i, scored, nread, outcomes, lastEntry>>

\* an exception e raised in the batch at index i; inner: inside the inner try
Raise(e, inner, outcome) ==
    IF (inner /\ InnerCatches(e)) \/ OuterCatches(e)
    THEN /\ scored' = scored \o traditional_score_candidates(
                                    target, Batch(candidates, i))
         /\ NextBatch(outcome)
    ELSE /\ pc' = "raised"
         /\ UNCHANGED <<i, scored, nread, outcomes, lastEntry>>

\* a call that is issued a second time when it raises
AICallRetriesOnce ==
    /\ pc = "ai_call"
    /\ batchStart' = Len(scored)
    /\ \E b \in AIBehaviours :
         /\ calls' = IF b = "raises" THEN calls + 2 ELSE calls + 1
         /\ CASE b = "raises" -> Raise("APIError", FALSE, "raises")
              [] b = "invalid_json" -> Raise("JSONDecodeError", TRUE, "invalid_json")
              [] b = "not_iterable" -> Raise("TypeError", TRUE, "failed")
              [] b = "iterable" ->
                   /\ pc' = "entries"
                   /\ nread' = 0
                   /\ UNCHANGED <<i, scored, outcomes, lastEntry>>
    /\ UNCHANGED <<recommended, insights, store, target,
                   hasKey, candidates, maxResults, results>>

\* lines 78-139: one call of the AI service for the batch at index i
AICall ==
    /\ pc = "ai_call"
    /\ calls' = calls + 1
    /\ batchStart' = Len(scored)
    /\ \E b \in AIBehaviours :
         CASE b = "raises" -> Raise("APIError", FALSE, "raises")
           [] b = "invalid_json" -> Raise("JSONDecodeError", TRUE, "invalid_json")
           [] b = "not_iterable" -> Raise("TypeError", TRUE, "failed")
           [] b = "iterable" ->
                /\ pc' = "entries"
                /\ nread' = 0
                /\ UNCHANGED <<i, scored, outcomes, lastEntry>>
    /\ UNCHANGED <<recommended, insights, store, target,
                   hasKey, candidates, maxResults, results>>

\* lines 142-166: one iteration over the parsed response
ProcessEntry ==
    /\ pc = "entries"
    /\ nread < MaxEntries
    /\ \E e \in Entries(candidates, i) :
         LET r == ProcessScoreData(target, Batch(candidates, i), e)
         IN  IF r.raises = "none"
             THEN /\ scored' = scored \o r.appended
                  /\ nread' = nread + 1
                  /\ lastEntry' = e
                  /\ UNCHANGED <<pc, i, outcomes>>
             ELSE Raise(r.raises, TRUE, "failed")
    /\ UNCHANGED <<recommended, insights, store, target,
                   hasKey, candidates, batchStart, calls,
                   maxResults, results>>

\* the response is exhausted
EndOfResponse ==
    /\ pc = "entries"
    /\ NextBatch("ok")
    /\ UNCHANGED <<recommended, insights, store, target,
                   hasKey, candidates, scored, batchStart,
                   calls, maxResults, results>>

\* lines 56-66, for the max_results the caller passed
SortAndReturn ==
    /\ pc = "sort"
    /\ \E n \in {0, MaxResults, DefaultMaxResults} :
         /\ maxResults' = n
         /\ results' = Take(SortDesc(scored), n)
    /\ pc' = "done"
    /\ UNCHANGED <<recommended, insights, store, target,
                   hasKey, candidates, i, scored, nread,
                   outcomes, batchStart, lastEntry, calls>>

Next ==
    \/ Start
    \/ ScoreTraditional
    \/ AICall
    \/ ProcessEntry
    \/ EndOfResponse
    \/ SortAndReturn

Spec == Init /\ [][Next]_vars

TypeOK ==
    /\ pc \in {"start", "traditional", "ai_call", "entries", "sort", "done",
               "raised"}
    /\ nread \in 0..MaxEntries
    /\ Len(outcomes) * batch_size <= Len(candidates) + batch_size

(***************************************************************************)
(* The scorers on one pair.  calculate_similarity, calculate_distance and  *)
(* calculate_confidence_score are public coroutines; PairSpec applies them *)
(* to a target and one candidate drawn from parcels that vary one field at *)
(* a time: the quality score, the building area, the year built, the       *)
(* coordinates, the city and the region id, down to a parcel with no field *)
(* populated.                                                              *)
(***************************************************************************)
Full ==
    Parcel(200, "cook", "9 Oak St", "Chicago", "IL", Some("M-1"), Some(50000),
           Some(100000), Some(2000), Some(2000000), None, Some(41), Some(-87),
           Some(One))

Unpopulated ==
    Parcel(201, "", "", "", "", None, None, None, None, None, None, None,
           None, None)

QualityScores == {None, Some(0), Some(One \div 2), Some(One)}

BuildingAreas ==
    {None, Some(0), Some(20000), Some(50000), Some(55000), Some(100000),
     Some(-50000)}

YearsBuilt ==
    {None, Some(2000), Some(2005), Some(2010), Some(2015), Some(2020),
     Some(2030)}

\* latitude and longitude
Coordinates ==
    {<<None, None>>, <<Some(41), None>>, <<None, Some(-87)>>,
     <<Some(41), Some(-87)>>, <<Some(42), Some(-88)>>, <<Some(33), Some(-97)>>,
     <<Some(0), Some(-87)>>}

\* city and region id
Places ==
    {<<"Chicago", "cook">>, <<"CHICAGO", "cook">>, <<"Evanston", "cook">>,
     <<"Dallas", "dallas">>}

PairParcels ==
    {[Full EXCEPT !.quality_score = q] : q \in QualityScores}
    \cup {[Full EXCEPT !.building_area = a] : a \in BuildingAreas}
    \cup {[Full EXCEPT !.year_built = y] : y \in YearsBuilt}
    \cup {[Full EXCEPT !.latitude = x[1], !.longitude = x[2]] : x \in Coordinates}
    \cup {[Full EXCEPT !.city = x[1], !.county_id = x[2]] : x \in Places}
    \cup {[Full EXCEPT !.city = "Dallas", !.county_id = "dallas",
                       !.latitude = None] }
    \cup {Unpopulated,
          [Unpopulated EXCEPT !.quality_score = Some(0)],
          [Unpopulated EXCEPT !.quality_score = Some(One)]}

PairInit ==
    /\ store = <<>>
    /\ target \in PairParcels
    /\ hasKey = FALSE
    /\ pc = "pair"
    /\ \E c \in PairParcels : candidates = <<c>>
    /\ i = 0
    /\ scored = <<>>
    /\ nread = 0
    /\ outcomes = <<>>
    /\ batchStart = 0
    /\ lastEntry = NoEntry
    /\ calls = 0
    /\ maxResults = DefaultMaxResults
    /\ results = <<>>
    /\ insights = NoInsights
    /\ recommended = <<>>

\* lines 518-556, 676-723 on the pair (target, candidates[1])
ScorePair ==
    /\ pc = "pair"
    /\ LET candidate == candidates[1]
           r == calculate_similarity(target, candidate)
       IN  scored' = <<ComparableProperty(candidate, r.similarity_score,
                                          calculate_distance(target, candidate),
                                          r.similarity_factors,
                                          r.confidence_score)>>
    /\ pc' = "scored"
    /\ UNCHANGED <<recommended, insights, store, target,
                   hasKey, candidates, i, nread, outcomes,
                   batchStart, lastEntry, calls, maxResults, results>>

PairNext == ScorePair

PairSpec == PairInit /\ [][PairNext]_vars

(***************************************************************************)
(* Candidate retrieval on large tables.  RetrievalSpec runs the retrieval  *)
(* step of find_comparables on tables of up to MaxStoredRows rows, in two  *)
(* layouts: the rows of BaseRows repeated (four of seven rows qualify in   *)
(* region "cook", two in "dallas"), and the same rows with the two regions *)
(* exchanged.                                                              *)
(***************************************************************************)
SwapCounty(r) ==
    [r EXCEPT !.county_id = IF @ = "cook" THEN "dallas" ELSE "cook"]

RetrievalStores ==
    { [k \in 1..n |-> Row(k)] : n \in 0..MaxStoredRows }
    \cup { [k \in 1..n |-> SwapCounty(Row(k))] : n \in 0..MaxStoredRows }

RetrievalInit ==
    /\ store \in RetrievalStores
    /\ target \in Targets
    /\ hasKey \in BOOLEAN
    /\ pc = "start"
    /\ candidates = <<>>
    /\ i = 0
    /\ scored = <<>>
    /\ nread = 0
    /\ outcomes = <<>>
    /\ batchStart = 0
    /\ lastEntry = NoEntry
    /\ calls = 0
    /\ maxResults = DefaultMaxResults
    /\ results = <<>>
    /\ insights = NoInsights
    /\ recommended = <<>>

RetrievalNext == Start

RetrievalSpec == RetrievalInit /\ [][RetrievalNext]_vars

(***************************************************************************)
(* ai_generate_market_insights on a target and a comparables list.  The    *)
(* comparables are scored parcels that differ in assessed value and        *)
(* building area.                                                          *)
(***************************************************************************)
\* the scored comparable of candidate c for target t
Scoring(t, c) ==
    LET r == calculate_similarity(t, c)
    IN  ComparableProperty(c, r.similarity_score, calculate_distance(t, c),
                           r.similarity_factors, r.confidence_score)

\* targets at 40, 35, 36, 44 and 45 dollars per square foot, and without
\* assessed value or building area
InsightTargets ==
    {[Full EXCEPT !.assessed_value = v] :
        v \in {Some(2000000), Some(1750000), Some(1800000), Some(2200000),
               Some(2250000), None}}
    \cup {[Full EXCEPT !.building_area = None]}

\* comparables at 40, 50 and 30 dollars per square foot, and without
\* assessed value or building area
ComparableParcels ==
    {[Full EXCEPT !.id = 301],
     [Full EXCEPT !.id = 302, !.assessed_value = Some(2500000)],
     [Full EXCEPT !.id = 303, !.assessed_value = Some(1500000)],
     [Full EXCEPT !.id = 304, !.assessed_value = None],
     [Full EXCEPT !.id = 305, !.building_area = None]}

ComparableLists(t) ==
    UNION { { [k \in 1..n |-> Scoring(t, f[k])] : f \in [1..n -> ComparableParcels] } :
              n \in 0..MaxComparables }

InsightInit ==
    /\ store = <<>>
    /\ target \in InsightTargets
    /\ hasKey \in BOOLEAN
    /\ pc = "insight"
    /\ candidates = <<>>
    /\ i = 0
    /\ scored = <<>>
    /\ nread = 0
    /\ outcomes = <<>>
    /\ batchStart = 0
    /\ lastEntry = NoEntry
    /\ calls = 0
    /\ maxResults = DefaultMaxResults
    /\ results \in ComparableLists(target)
    /\ insights = NoInsights
    /\ recommended = <<>>

\* lines 240-241: no credential
TraditionalInsights ==
    /\ pc = "insight"
    /\ ~hasKey
    /\ insights' = traditional_market_analysis(target, results)
    /\ pc' = "insight_done"
    /\ UNCHANGED <<recommended, store, target, hasKey, candidates, i, scored, nread,
                   outcomes, batchStart, lastEntry, calls, maxResults, results>>

\* an ai_generate_market_insights that does not test the credential
AIInsightsWithoutCredentialTest ==
    /\ pc = "insight"
    /\ calls' = calls + 1
    /\ \E b \in InsightBehaviours :
         /\ outcomes' = <<b.raises>>
         /\ IF b.raises = "none"
            THEN insights' = b.value /\ pc' = "insight_done"
            ELSE IF OuterCatches(b.raises)
            THEN /\ insights' = traditional_market_analysis(target, results)
                 /\ pc' = "insight_done"
            ELSE insights' = insights /\ pc' = "raised"
    /\ UNCHANGED <<recommended, store, target, hasKey, candidates, i, scored, nread,
                   batchStart, lastEntry, maxResults, results>>

\* lines 243-304: the AI call, its value returned as parsed, any exception
\* answered by the traditional analysis
AIInsights ==
    /\ pc = "insight"
    /\ hasKey
    /\ calls' = calls + 1
    /\ \E b \in InsightBehaviours :
         /\ outcomes' = <<b.raises>>
         /\ IF b.raises = "none"
            THEN insights' = b.value /\ pc' = "insight_done"
            ELSE IF OuterCatches(b.raises)
            THEN /\ insights' = traditional_market_analysis(target, results)
                 /\ pc' = "insight_done"
            ELSE insights' = insights /\ pc' = "raised"
    /\ UNCHANGED <<recommended, store, target, hasKey, candidates, i, scored, nread,
                   batchStart, lastEntry, maxResults, results>>

InsightNext ==
    \/ TraditionalInsights
    \/ AIInsights

InsightSpec == InsightInit /\ [][InsightNext]_vars

(***************************************************************************)
(* ai_generate_recommendations on a target and a comparables list.  The    *)
(* comparables are scored parcels at distances 0, 5, 25, 86 and 780 miles  *)
(* of a target that has coordinates, one of them of low similarity.        *)
(***************************************************************************)
RecommendTargets == {Full, [Full EXCEPT !.latitude = None]}

RecommendParcels ==
    {[Full EXCEPT !.id = 311],
     [Full EXCEPT !.id = 312, !.latitude = None, !.longitude = None],
     [Full EXCEPT !.id = 313, !.city = "Evanston", !.latitude = None,
                  !.longitude = None],
     [Full EXCEPT !.id = 314, !.latitude = Some(42), !.longitude = Some(-88)],
     Parcel(315, "dallas", "3 Elm St", "Dallas", "TX", Some("RESIDENTIAL"),
            Some(5000), Some(8000), Some(1950), Some(200000), None,
            Some(33), Some(-97), Some(0))}

RecommendLists(t) ==
    UNION { { [k \in 1..n |-> Scoring(t, f[k])] : f \in [1..n -> RecommendParcels] } :
              n \in 0..MaxComparables }

RecommendInit ==
    /\ store = <<>>
    /\ target \in RecommendTargets
    /\ hasKey \in BOOLEAN
    /\ pc = "recommend"
    /\ candidates = <<>>
    /\ i = 0
    /\ scored = <<>>
    /\ nread = 0
    /\ outcomes = <<>>
    /\ batchStart = 0
    /\ lastEntry = NoEntry
    /\ calls = 0
    /\ maxResults = DefaultMaxResults
    /\ results \in RecommendLists(target)
    /\ insights = NoInsights
    /\ recommended = <<>>

\* lines 376-377: no credential
TraditionalRecommendations ==
    /\ pc = "recommend"
    /\ ~hasKey
    /\ recommended' = traditional_generate_recommendations(target, results)
    /\ pc' = "recommend_done"
    /\ UNCHANGED <<insights, store, target, hasKey, candidates, i, scored,
                   nread, outcomes, batchStart, lastEntry, calls, maxResults,
                   results>>

\* lines 379-428: the summary (min() of an empty list of distances raises
\* ValueError before the call), the AI call, a list returned as parsed, any
\* other value as [], any exception answered by the traditional list
AIRecommendations ==
    /\ pc = "recommend"
    /\ hasKey
    /\ IF results # <<>> /\ TruthyDistances(results) = <<>>
       THEN /\ calls' = calls
            /\ outcomes' = <<"ValueError">>
            /\ IF OuterCatches("ValueError")
               THEN /\ recommended'
                         = traditional_generate_recommendations(target, results)
                    /\ pc' = "recommend_done"
               ELSE recommended' = recommended /\ pc' = "raised"
       ELSE /\ calls' = calls + 1
            /\ \E b \in RecommendBehaviours :
                 /\ outcomes' = <<b.raises>>
                 /\ IF b.raises = "none"
                    THEN /\ recommended'
                              = (IF b.value.kind = "array" THEN b.value.items
                                 ELSE <<>>)
                         /\ pc' = "recommend_done"
                    ELSE IF OuterCatches(b.raises)
                    THEN /\ recommended'
                              = traditional_generate_recommendations(target, results)
                         /\ pc' = "recommend_done"
                    ELSE recommended' = recommended /\ pc' = "raised"
    /\ UNCHANGED <<insights, store, target, hasKey, candidates, i, scored,
                   nread, batchStart, lastEntry, maxResults, results>>

RecommendNext ==
    \/ TraditionalRecommendations
    \/ AIRecommendations

RecommendSpec == RecommendInit /\ [][RecommendNext]_vars

(***************************************************************************)
(* The three entry points of the agent that consult the credential:        *)
(* find_comparables, ai_generate_market_insights and                       *)
(* ai_generate_recommendations, each called on its own inputs.             *)
(***************************************************************************)
AgentInit ==
    \/ Init
    \/ InsightInit
    \/ RecommendInit

AgentNext ==
    \/ Next
    \/ InsightNext
    \/ RecommendNext

AgentSpec == AgentInit /\ [][AgentNext]_vars

(***************************************************************************)
(* Properties.                                                             *)
(***************************************************************************)
\* what find_comparables returns without a credential on the same inputs
DeterministicOnly ==
    Take(SortDesc(traditional_score_candidates(target, candidates)), maxResults)

Outcome(b) == outcomes[b]
AllBatchesRaised == \A b \in 1..Len(outcomes) : Outcome(b) = "raises"
FellBack(b) == Outcome(b) \in {"raises", "invalid_json", "failed"}

\* number of occurrences of x in the sequence s
Count(s, x) == Cardinality({k \in 1..Len(s) : s[k] = x})
Range(s) == {s[k] : k \in 1..Len(s)}

FactorNames == {"location", "size", "age", "zoning", "value", "sale_price"}

\* C1: when the AI call raises on every batch, find_comparables with a
\* credential returns the list that deterministic scoring of the whole
\* candidate list, sorted and truncated the same way, returns.
FallbackEquivalence ==
    (pc = "done" /\ hasKey /\ AllBatchesRaised) => results = DeterministicOnly

FallbackEquivalenceWitness ==
    /\ pc = "done"
    /\ hasKey
    /\ Len(outcomes) = 2
    /\ AllBatchesRaised
    /\ maxResults = 2
    /\ Len(results) = 2
    /\ Len(scored) > 2

\* C2: no entry of the returned list has similarity_score <= 0.3, whichever
\* path scored it.
InclusionThreshold ==
    \A k \in 1..Len(results) : results[k].similarity_score > MinSimilarity

InclusionThresholdWitness ==
    /\ pc = "done"
    /\ hasKey
    /\ Len(outcomes) = 2
    /\ Outcome(1) = "raises"
    /\ Outcome(2) = "ok"
    /\ \E k \in 1..batch_size :
         calculate_similarity(target, candidates[k]).similarity_score
             <= MinSimilarity
    /\ \E k \in 1..Len(results) : results[k].property.id = candidates[6].id
    /\ \E k \in 1..Len(results) : results[k].property.id = candidates[1].id

\* C3: the returned list is sorted non-increasing by similarity_score, also
\* when AI-scored and deterministically scored batches are mixed.
Ranking ==
    \A k \in 1..(Len(results) - 1) :
        results[k].similarity_score >= results[k + 1].similarity_score

RankingWitness ==
    /\ pc = "done"
    /\ Len(outcomes) = 2
    /\ Outcome(1) = "ok"
    /\ FellBack(2)
    /\ Len(results) >= 3
    /\ \E k \in 1..(Len(scored) - 1) :
         scored[k].similarity_score < scored[k + 1].similarity_score

\* C4: whatever the AI service does on a batch (the call raises, the content
\* is not JSON, the JSON has the wrong shape), no exception leaves
\* find_comparables.
NoAIErrorSurfaces == pc # "raised"

NoAIErrorSurfacesWitness ==
    /\ pc = "done"
    /\ Len(outcomes) = 2
    /\ Outcome(1) = "failed"
    /\ Outcome(2) = "invalid_json"

\* C5: a batch whose AI call raised or whose response could not be fully
\* processed contributes exactly what traditional_score_candidates produces
\* for the candidates of that batch.
BatchFallbackExact ==
    (pc \in {"ai_call", "sort"} /\ outcomes # <<>> /\ FellBack(Len(outcomes)))
        => SubSeq(scored, batchStart + 1, Len(scored))
             = traditional_score_candidates(
                   target, Batch(candidates, i - batch_size))

\* C6: every returned entry has similarity_score and confidence_score in
\* [0,1].
ScoresInRange ==
    \A k \in 1..Len(results) :
        /\ 0 <= results[k].similarity_score
        /\ results[k].similarity_score <= One
        /\ 0 <= results[k].confidence_score
        /\ results[k].confidence_score <= One

\* C7: every factor scorer returns a value in [0,1] for every pair of
\* parcels, negative areas, values and prices included.
FactorScoresInRange ==
    \A k \in 1..Len(candidates) : \A f \in FactorNames :
        LET v == calculate_similarity(target, candidates[k]).similarity_factors[f]
        IN  0 <= v /\ v <= One

\* C8: the breakdown attached to a comparable is the six-factor breakdown of
\* calculate_similarity, on the AI path as on the deterministic path.
SameBreakdown ==
    \A k \in 1..Len(scored) :
        scored[k].similarity_factors
            = calculate_similarity(target, scored[k].property).similarity_factors

IngestionIndustrialCodes == {"M-1", "M-2", "M-3", "I-1", "I-2", "I-3"}

\* C10: the zoning scorer returns 1.0 for equal codes, 0.8 for two different
\* industrial codes of the kind the ingestion stores (such as M-1 and I-2),
\* and 0.3 for M-1 against RESIDENTIAL.
ZoningExamples ==
    \A k \in 1..Len(candidates) :
        (TruthyStr(target.zoning_code) /\ TruthyStr(candidates[k].zoning_code))
        => LET tz == Upper(target.zoning_code[1])
               cz == Upper(candidates[k].zoning_code[1])
               score == calculate_zoning_similarity(target, candidates[k])
           IN  /\ (tz = "M-1" /\ cz = "M-1") => score = One
               /\ (tz = "M-1" /\ cz = "I-2") => score = (8 * One) \div 10
               /\ (tz = "M-1" /\ cz = "RESIDENTIAL") => score = (3 * One) \div 10
               /\ (tz # cz /\ tz \in IngestionIndustrialCodes
                   /\ cz \in IngestionIndustrialCodes)
                     => score = (8 * One) \div 10

(***************************************************************************)
(* Properties of the scorers on one pair (PairSpec).                       *)
(***************************************************************************)
\* the pair that was scored and what was attached to it
Candidate == candidates[1]
Scored == scored[1]

\* none of the eleven fields populated, no quality score
IsUnpopulated(p) ==
    /\ \A f \in {"address", "city", "state", "county_id"} : p[f] = ""
    /\ \A f \in {"building_area", "zoning_code", "year_built",
                 "assessed_value", "latitude", "longitude", "lot_area",
                 "quality_score"} : p[f] = None

\* the number of the eleven fields that hold a usable value
PopulatedFields(p) ==
    Cardinality({f \in {"address", "city", "state", "county_id"} : p[f] # ""})
    + Cardinality({f \in {"zoning_code"} : TruthyStr(p[f])})
    + Cardinality({f \in {"building_area", "year_built", "assessed_value",
                          "latitude", "longitude", "lot_area"} :
                     TruthyNum(p[f])})

\* the quality score of a parcel, 0.5 when it has none
OwnQuality(p) == IF p.quality_score = None THEN One \div 2 ELSE p.quality_score[1]

\* C11 as stated: for two parcels with none of the eleven fields populated
\* and no quality score, calculate_confidence_score returns 0.5.
EmptyPairHalf ==
    (pc = "scored" /\ IsUnpopulated(target) /\ IsUnpopulated(Candidate))
        => Scored.confidence_score = One \div 2

\* C11: for two parcels with none of the eleven fields populated and no
\* quality score, calculate_confidence_score returns 0.2, that is
\* 0.6 x 0 (completeness) + 0.4 x 0.5 (default quality).
EmptyPairConfidence ==
    (pc = "scored" /\ IsUnpopulated(target) /\ IsUnpopulated(Candidate))
        => Scored.confidence_score = (2 * One) \div 10

EmptyPairConfidenceWitness ==
    /\ pc = "scored"
    /\ IsUnpopulated(target)
    /\ IsUnpopulated(Candidate)
    /\ Scored.confidence_score = (2 * One) \div 10

\* C12: the confidence is 0.6 x (mean of populated fields / 11 of the two
\* parcels) + 0.4 x (mean of the two quality scores, 0.5 for an absent one),
\* clamped to [0,1]; it is 1.0 for a pair with all eleven fields populated
\* and both quality scores 1.0; it is never below 0 or above 1.
ConfidenceFormula ==
    pc = "scored" =>
        LET completeness ==
                ((PopulatedFields(target) + PopulatedFields(Candidate)) * One)
                    \div (2 * 11)
            quality == (OwnQuality(target) + OwnQuality(Candidate)) \div 2
            confidence == (6 * completeness + 4 * quality) \div 10
        IN  /\ Scored.confidence_score = Max2(0, Min2(One, confidence))
            /\ Scored.confidence_score >= 0
            /\ Scored.confidence_score <= One
            /\ (/\ PopulatedFields(target) = 11
                /\ PopulatedFields(Candidate) = 11
                /\ target.quality_score = Some(One)
                /\ Candidate.quality_score = Some(One))
                  => Scored.confidence_score = One

\* C13: when both quality scores are present with values in [0,1], 0.0
\* included, the quality term of the confidence is their mean; 0.5 stands in
\* only for an absent quality score.
QualityTerm ==
    (/\ pc = "scored"
     /\ \A p \in {target, Candidate} :
          p.quality_score # None => (0 <= p.quality_score[1]
                                     /\ p.quality_score[1] <= One))
        => LET avg_completeness ==
                   (calculate_data_completeness(target)
                    + calculate_data_completeness(Candidate)) \div 2
               quality_term == (OwnQuality(target) + OwnQuality(Candidate)) \div 2
           IN  Scored.confidence_score
                   = Min2(One, (avg_completeness * 6 + quality_term * 4) \div 10)

\* C14: the size score of (A,B) equals the size score of (B,A), and the
\* size score of (A,A) is 1.0 when A's building area is present and nonzero.
SizeSymmetry ==
    pc = "scored" =>
        /\ Scored.similarity_factors.size
               = calculate_size_similarity(Candidate, target)
        /\ (target = Candidate /\ TruthyNum(target.building_area))
               => Scored.similarity_factors.size = One

SizeSymmetryWitness ==
    /\ pc = "scored"
    /\ TruthyNum(target.building_area)
    /\ TruthyNum(Candidate.building_area)
    /\ target.building_area[1] > 2 * Candidate.building_area[1]
    /\ Candidate.building_area[1] > 0
    /\ Scored.similarity_factors.size > 0
    /\ Scored.similarity_factors.size < One \div 2

HasCoordinates(p) == p.latitude # None /\ p.longitude # None

\* C16: calculate_distance returns the tier estimate (5.0 for equal cities
\* ignoring case, else 25.0 for equal region ids, else 100.0) exactly when
\* one of the four coordinates is absent; when all four are present,
\* whatever their values, it returns the great-circle distance, 0.0 for two
\* identical coordinate pairs.
DistancePath ==
    pc = "scored" =>
        IF HasCoordinates(target) /\ HasCoordinates(Candidate)
        THEN /\ Scored.distance_miles
                    = Haversine(target.latitude[1], target.longitude[1],
                                Candidate.latitude[1], Candidate.longitude[1])
             /\ (target.latitude = Candidate.latitude
                 /\ target.longitude = Candidate.longitude)
                    => Scored.distance_miles = 0
        ELSE Scored.distance_miles
                 = (IF Lower(target.city) = Lower(Candidate.city) THEN 5 * Mile
                    ELSE IF target.county_id = Candidate.county_id THEN 25 * Mile
                    ELSE 100 * Mile)

(***************************************************************************)
(* Properties of candidate retrieval.                                      *)
(***************************************************************************)
\* C17: the list get_candidate_properties returns holds no record with the
\* target's id and no record without a building area, and no entry that
\* find_comparables scores or returns is the target, on either path.
CandidateExclusions ==
    /\ \A k \in 1..Len(candidates) :
         /\ candidates[k].id # target.id
         /\ candidates[k].building_area # None
    /\ \A k \in 1..Len(scored) : scored[k].property.id # target.id
    /\ \A k \in 1..Len(results) : results[k].property.id # target.id

CandidateExclusionsWitness ==
    /\ pc = "done"
    /\ hasKey
    /\ \E k \in 1..Len(store) : store[k].id = target.id
    /\ \E k \in 1..Len(store) : store[k].building_area = None
    /\ Len(candidates) = Len(store) - 2
    /\ results # <<>>

\* the rows of the table that qualify: not the target, with a building area
Qualifying(r) == r.id # target.id /\ r.building_area # None
SameRegion(r) == r.county_id = target.county_id

QualifyingSame ==
    Cardinality({k \in 1..Len(store) :
                   Qualifying(store[k]) /\ SameRegion(store[k])})
QualifyingOther ==
    Cardinality({k \in 1..Len(store) :
                   Qualifying(store[k]) /\ ~SameRegion(store[k])})

\* the same-region records come first
SameRegionFirst ==
    \A j, k \in 1..Len(candidates) :
        (j < k /\ ~SameRegion(candidates[j])) => ~SameRegion(candidates[k])

\* C18 as stated: at most 50 records are returned, same-region records
\* before other-region records, and whenever fewer than 50 same-region
\* records qualify the result is padded with qualifying other-region records
\* up to 50 in total or until they are exhausted.
CandidatePadding ==
    pc # "start" =>
        /\ Len(candidates) <= 50
        /\ SameRegionFirst
        /\ QualifyingSame < 50
             => Len(candidates) = Min2(50, QualifyingSame + QualifyingOther)

\* C18: at most 50 records are returned, same-region records before
\* other-region records; when fewer than 20 same-region records qualify the
\* result is padded with qualifying other-region records up to 50 in total
\* or until they are exhausted; when 20 or more qualify, the result is the
\* first 50 same-region records at most and no other-region record.
CandidatePaddingBelowTwenty ==
    pc # "start" =>
        /\ Len(candidates) <= 50
        /\ SameRegionFirst
        /\ \A k \in 1..Len(candidates) : Qualifying(candidates[k])
        /\ QualifyingSame < 20
             => Len(candidates) = Min2(50, QualifyingSame + QualifyingOther)
        /\ QualifyingSame >= 20
             => /\ Len(candidates) = Min2(50, QualifyingSame)
                /\ \A k \in 1..Len(candidates) : SameRegion(candidates[k])

CandidatePaddingBelowTwentyWitness ==
    /\ pc # "start"
    /\ QualifyingSame > 0
    /\ QualifyingSame < 20
    /\ QualifyingSame + QualifyingOther > 50
    /\ Len(candidates) = 50
    /\ SameRegion(candidates[QualifyingSame])
    /\ ~SameRegion(candidates[QualifyingSame + 1])

(***************************************************************************)
(* Properties of the market insights (InsightSpec).                        *)
(***************************************************************************)
MarketPositions == {"above_market", "at_market", "below_market"}

\* the value returned was computed by traditional_market_analysis
FromTraditionalAnalysis == ~hasKey \/ outcomes # <<"none">>

\* the comparables (indices) that have both assessed value and building area
Valued == {k \in 1..Len(results) :
             /\ results[k].property.assessed_value \notin {None, Some(0)}
             /\ results[k].property.building_area \notin {None, Some(0)}}

\* sum over the valued comparables of their price per square foot, in cents
RECURSIVE TotalPsf(_)
TotalPsf(ks) ==
    IF ks = {} THEN 0
    ELSE LET k == CHOOSE x \in ks : TRUE
             p == results[k].property
         IN  (p.assessed_value[1] * Cent) \div p.building_area[1]
             + TotalPsf(ks \ {k})

\* C19: for every target, every comparables list (empty lists and lists
\* without valuation data included) and every behaviour of the AI service,
\* ai_generate_market_insights returns a mapping with the keys
\* market_position, value_range, market_trends, key_insights and
\* recommendations whose market_position is above_market, at_market or
\* below_market.
InsightContract ==
    pc = "insight_done" =>
        /\ insights.kind = "object"
        /\ InsightKeys \subseteq insights.keys
        /\ insights.market_position \in MarketPositions

\* C20: in traditional_market_analysis with at least one comparable that has
\* assessed value and building area, m their mean price per square foot and
\* t the target's, the position is above_market iff t > 1.1*m, below_market
\* iff t < 0.9*m, at_market otherwise; a target without assessed value or
\* without building area is classified neither above nor below market.
MarketPositionRule ==
    (pc = "insight_done" /\ FromTraditionalAnalysis /\ Valued # {})
        => LET m == TotalPsf(Valued) \div Cardinality(Valued)
               position == insights.market_position
           IN  IF target.assessed_value = None \/ target.building_area = None
               THEN position \notin {"above_market", "below_market"}
               ELSE LET t == (target.assessed_value[1] * Cent)
                                 \div target.building_area[1]
                    IN  /\ position = "above_market" <=> 10 * t > 11 * m
                        /\ position = "below_market" <=> 10 * t < 9 * m
                        /\ position = "at_market"
                               <=> (10 * t <= 11 * m /\ 10 * t >= 9 * m)

(***************************************************************************)
(* Properties of the recommendations (RecommendSpec).                      *)
(***************************************************************************)
\* the list returned was computed by traditional_generate_recommendations
FromTraditionalRecommendations == ~hasKey \/ outcomes # <<"none">>

\* sum of a numeric field over the comparables with index in ks
RECURSIVE TotalOf(_, _)
TotalOf(field, ks) ==
    IF ks = {} THEN 0
    ELSE LET k == CHOOSE x \in ks : TRUE
         IN  results[k][field] + TotalOf(field, ks \ {k})

Comparables == 1..Len(results)

\* C21: for a non-empty comparables list, the traditional recommendations
\* hold the distance-concern recommendation if and only if the average
\* distance_miles over the comparables that carry a distance, a distance of
\* 0.0 included, is greater than 10.
DistanceConcernRule ==
    (pc = "recommend_done" /\ FromTraditionalRecommendations /\ results # <<>>)
        => (DistanceConcern \in Range(recommended)
            <=> TotalOf("distance_miles", Comparables) > 10 * Mile * Len(results))

\* C22: traditional_generate_recommendations returns a non-empty list of at
\* most 5 strings; for an empty comparables list only the generic
\* expand-the-search recommendations; for a non-empty list the
\* expand-search-radius recommendation if and only if the mean
\* similarity_score of the comparables is below 0.6.
RecommendationShape ==
    (pc = "recommend_done" /\ FromTraditionalRecommendations)
        => /\ Len(recommended) >= 1
           /\ Len(recommended) <= 5
           /\ results = <<>>
                => Range(recommended)
                     \subseteq {"Expand search criteria to find more comparable properties",
                                "Consider properties in adjacent markets"}
           /\ results # <<>>
                => (ExpandRadius \in Range(recommended)
                    <=> 10 * TotalOf("similarity_score", Comparables)
                            < 6 * One * Len(results))

RecommendationShapeWitness ==
    /\ pc = "recommend_done"
    /\ ~hasKey
    /\ Len(results) = 3
    /\ ExpandRadius \in Range(recommended)
    /\ DistanceConcern \in Range(recommended)
    /\ Len(recommended) = 5

(***************************************************************************)
(* Properties of find_comparables (Spec), continued.                       *)
(***************************************************************************)
\* C23: when candidate retrieval yields an empty list, find_comparables
\* returns an empty list, raises nothing and makes no call to the AI
\* service, with or without a credential.
NoCandidates ==
    (pc # "start" /\ candidates = <<>>)
        => /\ pc = "done"
           /\ results = <<>>
           /\ scored = <<>>
           /\ calls = 0

NoCandidatesWitness ==
    /\ pc = "done"
    /\ hasKey
    /\ store # <<>>
    /\ candidates = <<>>
    /\ results = <<>>

(***************************************************************************)
(* Properties of the three entry points (AgentSpec).                       *)
(***************************************************************************)
\* C24: without a credential, find_comparables, ai_generate_market_insights
\* and ai_generate_recommendations make no call to the AI service and
\* return what traditional_score_candidates (sorted and truncated),
\* traditional_market_analysis and traditional_generate_recommendations
\* return on the same inputs.
MissingCredential ==
    ~hasKey =>
        /\ calls = 0
        /\ pc # "raised"
        /\ pc = "done" => results = DeterministicOnly
        /\ pc = "insight_done"
             => insights = traditional_market_analysis(target, results)
        /\ pc = "recommend_done"
             => recommended = traditional_generate_recommendations(target, results)

MissingCredentialWitness ==
    /\ ~hasKey
    /\ pc = "insight_done"
    /\ calls = 0
    /\ Len(results) = 2
    /\ insights.market_position = "above_market"

\* the target and the candidate of the end-to-end example
IsExampleTarget(p) ==
    /\ p.building_area = Some(50000)
    /\ p.year_built = Some(2000)
    /\ p.zoning_code = Some("M-1")
    /\ p.assessed_value = Some(2000000)
    /\ p.city = "Chicago"
    /\ p.sale_price = None

IsExampleCandidate(p) ==
    /\ p.building_area = Some(55000)
    /\ p.year_built = Some(2005)
    /\ p.zoning_code = Some("M-1")
    /\ p.assessed_value = Some(2100000)
    /\ p.city = "Chicago"
    /\ p.sale_price = None

ExampleFactors ==
    [location |-> One, size |-> (10 * One) \div 11, age |-> (3 * One) \div 4,
     zoning |-> One, value |-> One, sale_price |-> One \div 2]

\* 0.10*1.0 + 0.25*(10/11) + 0.05*0.75 + 0.05*1.0 + 0.20*1.0 + 0.35*0.5
ExampleSimilarity ==
    (10 * One + 25 * ((10 * One) \div 11) + 5 * ((3 * One) \div 4) + 5 * One
     + 20 * One + 35 * (One \div 2)) \div 100

IsExample(x) ==
    /\ IsExampleCandidate(x.property)
    /\ x.similarity_factors = ExampleFactors
    /\ x.similarity_score = ExampleSimilarity

Appended == SubSeq(scored', Len(scored) + 1, Len(scored'))

\* the step ends the batch at index i by a fallback
FallsBack ==
    /\ Len(outcomes') = Len(outcomes) + 1
    /\ outcomes'[Len(outcomes')] # "ok"

\* C26: on the AI path every step keeps what earlier steps and earlier
\* batches scored, appends only comparables of the current batch's own
\* candidates (for a failed batch the deterministic scoring of that batch),
\* and, whatever the outcome of a batch, goes on to the AI call of the next
\* batch while candidates remain.
PerBatchDecision ==
    [][hasKey =>
        /\ Len(scored') >= Len(scored)
        /\ SubSeq(scored', 1, Len(scored)) = scored
        /\ \A k \in 1..Len(Appended) :
             \E j \in (i + 1)..Min2(i + batch_size, Len(candidates)) :
                 Appended[k].property = candidates[j]
        /\ FallsBack
             => Appended = traditional_score_candidates(
                               target, SubSeq(candidates, i + 1,
                                              Min2(i + batch_size, Len(candidates))))
        /\ (pc \in {"ai_call", "entries"} /\ i + batch_size < Len(candidates))
             => pc' \in {"ai_call", "entries"}
        /\ (pc = "entries" /\ pc' = "ai_call") => i' = i + batch_size
      ]_vars

PerBatchDecisionWitness ==
    /\ pc = "done"
    /\ calls = 2
    /\ Outcome(1) = "invalid_json"
    /\ Outcome(2) = "ok"
    /\ \E k \in 1..Len(results) :
         /\ results[k].property = candidates[batch_size + 1]
         /\ results[k].similarity_score = (9 * One) \div 10
         /\ results[k].confidence_score = (8 * One) \div 10
    /\ \E k \in 1..Len(results) :
         /\ results[k].property = candidates[1]
         /\ results[k].similarity_score
                = calculate_similarity(target, candidates[1]).similarity_score

\* the place of scored[a] in the descending order that keeps ties in the
\* order of scoring
StableRank(a) ==
    1 + Cardinality({b \in 1..Len(scored) :
                       \/ scored[b].similarity_score > scored[a].similarity_score
                       \/ /\ scored[b].similarity_score = scored[a].similarity_score
                          /\ b < a})

\* C27: entries of the output with equal similarity_score keep the order in
\* which scoring produced them: the output is the scored list in descending
\* order of similarity_score, ties in scoring order, cut at max_results.
StableTies ==
    pc = "done" =>
        \A a \in 1..Len(scored) :
            StableRank(a) <= Len(results) => results[StableRank(a)] = scored[a]

StableTiesWitness ==
    /\ pc = "done"
    /\ \E a, b, c \in 1..Len(scored) :
         /\ a < b
         /\ b < c
         /\ scored[a].similarity_score = scored[b].similarity_score
         /\ scored[a].property.id # scored[b].property.id
         /\ scored[c].similarity_score > scored[b].similarity_score
         /\ StableRank(b) <= Len(results)
         /\ StableRank(b) = StableRank(a) + 1

\* the candidates of the current batch that a response entry names
NamedInBatch(e) ==
    {j \in (i + 1)..Min2(i + batch_size, Len(candidates)) :
       candidates[j].id = e.id}

\* C28: while a response is processed without error, an entry adds a
\* comparable exactly when its id is the id of a candidate of the current
\* batch and its similarity_score is above 0.3, and the comparable carries
\* the entry's similarity_score and confidence_score; any other entry (an id
\* of no candidate of the batch, a candidate of another batch, a missing
\* similarity_score) adds nothing; the end of the response adds nothing, so
\* a candidate the response omits is absent.
AcceptanceRule ==
    [][/\ (pc = "entries" /\ nread' = nread + 1)
            => LET e == lastEntry'
               IN  IF /\ e.kind = "object"
                      /\ NamedInBatch(e) # {}
                      /\ e.similarity_score.t = "num"
                      /\ e.similarity_score.v > MinSimilarity
                   THEN /\ Len(Appended) = 1
                        /\ \E j \in NamedInBatch(e) :
                             Appended[1].property = candidates[j]
                        /\ Appended[1].similarity_score = e.similarity_score.v
                        /\ Appended[1].confidence_score = e.confidence_score.v
                   ELSE Appended = <<>>
       /\ (/\ pc = "entries"
           /\ Len(outcomes') = Len(outcomes) + 1
           /\ outcomes'[Len(outcomes')] = "ok")
            => scored' = scored
      ]_vars

AcceptanceRuleWitness ==
    /\ pc = "done"
    /\ outcomes = <<"ok">>
    /\ maxResults = DefaultMaxResults
    /\ Len(results) = 1
    /\ results[1].property = candidates[Len(candidates)]
    /\ results[1].similarity_score = (15 * One) \div 10
    /\ Len(candidates) > 1
    /\ calculate_similarity(target, candidates[1]).similarity_score > MinSimilarity

\* the batches of the candidate list from index start on, concatenated
RECURSIVE BatchesFrom(_)
BatchesFrom(start) ==
    IF start >= Len(candidates) THEN <<>>
    ELSE SubSeq(candidates, start + 1, Min2(start + batch_size, Len(candidates)))
         \o BatchesFrom(start + batch_size)

BatchingInvariant ==
    (hasKey /\ pc # "start")
        => /\ i = batch_size * Len(outcomes)
           /\ calls = Len(outcomes) + (IF pc = "entries" THEN 1 ELSE 0)
           /\ pc \in {"ai_call", "entries"} => i < Len(candidates)
           /\ pc \in {"sort", "done"}
                => /\ calls = (Len(candidates) + batch_size - 1) \div batch_size
                   /\ i >= Len(candidates)
                   /\ BatchesFrom(0) = candidates

\* the batches that remain to be sent, the current one included
RemainingBatches ==
    IF i >= Len(candidates) THEN 0
    ELSE (Len(candidates) - i + batch_size - 1) \div batch_size

\* a bound on the number of steps find_comparables can still take: every
\* batch costs at most one call, MaxEntries entries and the end of the
\* response
StepsLeft ==
    LET perBatch == MaxEntries + 2
    IN  CASE pc = "start" ->
                 3 + ((Len(store) + batch_size - 1) \div batch_size) * perBatch
          [] pc = "traditional" -> 2
          [] pc = "ai_call" -> 1 + RemainingBatches * perBatch
          [] pc = "entries" ->
                 2 + (RemainingBatches - 1) * perBatch + (MaxEntries - nread)
          [] pc = "sort" -> 1
          [] OTHER -> 0

\* C29: with a credential the candidate list is cut in retrieval order into
\* consecutive batches of 5, the last possibly smaller, each candidate in
\* exactly one batch; one AI call is issued per batch, ceil(n/5) in all, none
\* is issued again after a failure; and find_comparables terminates after
\* the last batch: every step lowers the bound StepsLeft, which is never
\* negative and is 0 only when find_comparables has returned.
BatchingAndTermination ==
    /\ []BatchingInvariant
    /\ [](StepsLeft >= 0 /\ (StepsLeft = 0 <=> pc \in {"done", "raised"}))
    /\ [][StepsLeft' < StepsLeft]_vars

BatchingAndTerminationWitness ==
    /\ pc = "done"
    /\ hasKey
    /\ Len(candidates) = batch_size + 1
    /\ calls = 2
    /\ Outcome(1) = "raises"
    /\ Outcome(2) = "failed"

\* C30: the candidate ids being pairwise distinct, no id appears twice in
\* the list find_comparables returns, whatever the AI service answers (the
\* same id named twice, a response that fails after some of its entries
\* were accepted).
NoDuplicateIds ==
    pc = "done" =>
        \A j, k \in 1..Len(results) :
            j # k => results[j].property.id # results[k].property.id
====
